---- MODULE Spec2Model ----
(***************************************************************************)
(* A model of quant_platform.py, the Streamlit dashboard "Pro Quant".      *)
(* The script routes to one page per run (lines 586-599); each page is a   *)
(* button handler over inputs read from widgets and from yfinance.  Every  *)
(* page gets a specification of its own: Init is the state once the        *)
(* widgets have been read, the actions are the steps of the handler.       *)
(*                                                                         *)
(* Numbers.  Percentages are held in thousandths of a percent,              *)
(* volume ratios in hundredths, portfolio weights in hundredths of a       *)
(* percent.  Floating point values that may be NaN or infinite are the     *)
(* records NaN, Inf and Fin(n, d), the exact rational n/d with d > 0.      *)
(***************************************************************************)
EXTENDS Integers, Sequences, FiniteSets, TLC

VARIABLES
    page,            \* the page the router dispatches to (lines 20, 586-599)
    pc,              \* position inside the page's handler
    hist,            \* analyze_stock_strength: what stock.history returned
    strength,        \* analyze_stock_strength: the returned triple
    df_holdings,     \* page_etf_analysis: the holdings table (weights)
    i,               \* page_etf_analysis: rows of top_10 scanned so far
    bull_force,      \* page_etf_analysis: line 349
    bear_force,      \* page_etf_analysis: line 350
    realtime_data,   \* page_etf_analysis: line 346
    status,          \* page_etf_analysis: line 390
    histories,       \* page_etf_analysis: what stock.history returned, pass by pass
    df,              \* page_analysis: the Close column of the fetched frame
    ma_short,        \* page_analysis: line 279
    ma_long,         \* page_analysis: line 280
    frame,           \* page_analysis: the derived columns of df
    buys,            \* page_analysis: line 302, the bars marked GOLDEN
    sells,           \* page_analysis: line 303, the bars marked DEATH
    ln_close,        \* page_monte_carlo: the Close column, each close as its ln
    days,            \* page_monte_carlo: line 440
    drift,           \* page_monte_carlo: line 450
    stdev,           \* page_monte_carlo: line 451, held as its square
    daily_returns,   \* page_monte_carlo: line 455
    price_paths,     \* page_monte_carlo: line 457
    first_paths,     \* page_monte_carlo: price_paths of the previous run
    prices_len,      \* page_fft: len(prices), line 488
    fft_theo,        \* page_fft: line 498, one amplitude per bin
    periods,         \* page_fft: line 502
    amps,            \* page_fft: line 501
    valid_mask,      \* page_fft: line 511
    dominant_period, \* page_fft: line 521
    ticker,          \* get_stock_data: the argument
    download,        \* get_stock_data: what yf.download does, line 35
    e,               \* get_stock_data: the exception in flight, line 39
    data,            \* get_stock_data: the returned frame
    etf_code,        \* get_etf_holdings: the argument
    response,        \* get_etf_holdings: what requests.get and read_html do
    holdings         \* get_etf_holdings: the returned pair

vpaVars == <<hist, strength>>
etfVars == <<df_holdings, i, bull_force, bear_force, realtime_data, status, histories>>
taVars == <<df, ma_short, ma_long, frame, buys, sells>>
mcVars == <<ln_close, days, drift, stdev, daily_returns, price_paths, first_paths>>
fftVars == <<prices_len, fft_theo, periods, amps, valid_mask, dominant_period>>
dataVars == <<ticker, download, e, data>>
holdVars == <<etf_code, response, holdings>>
providerVars == <<dataVars, holdVars>>
vars == <<page, pc, vpaVars, etfVars, taVars, mcVars, fftVars, providerVars>>

None == "None"

(***************************************************************************)
(* Integer helpers.                                                        *)
(***************************************************************************)
\* Floor division for any sign of x (m > 0).
FloorDiv(x, m) == IF x >= 0 THEN x \div m ELSE -((-x + m - 1) \div m)

\* round(x, k) of numpy/Python: the nearest multiple of m, a tie going to the
\* even multiple.  x is in units of 1/(m * unit), the result in units of unit.
RoundHalfEven(x, m) ==
    LET q == FloorDiv(x, m)
        r == x - q * m
    IN  IF 2 * r < m THEN q
        ELSE IF 2 * r > m THEN q + 1
        ELSE IF q % 2 = 0 THEN q ELSE q + 1

RECURSIVE SumSeq(_)
SumSeq(s) == IF s = <<>> THEN 0 ELSE Head(s) + SumSeq(Tail(s))

(***************************************************************************)
(* float64 values as far as the pages use them: NaN, +infinity, and the    *)
(* finite values as exact rationals n/d, d > 0.  The operands of the       *)
(* divisions below are never negative, so one infinity is enough.          *)
(***************************************************************************)
NaN == [k |-> "nan", n |-> 0, d |-> 1]
Inf == [k |-> "inf", n |-> 0, d |-> 1]
Fin(n, d) == [k |-> "fin", n |-> n, d |-> d]
IsNaN(a) == a.k = "nan"
IsFin(a) == a.k = "fin"

\* a == b on floats: NaN equals nothing, not even itself.
FEq(a, b) ==
    \/ a.k = "inf" /\ b.k = "inf"
    \/ IsFin(a) /\ IsFin(b) /\ a.n * b.d = b.n * a.d

\* a > b on floats: False as soon as one side is NaN.
FGt(a, b) ==
    \/ a.k = "inf" /\ IsFin(b)
    \/ IsFin(a) /\ IsFin(b) /\ a.n * b.d > b.n * a.d

FAdd(a, b) ==
    IF IsNaN(a) \/ IsNaN(b) THEN NaN
    ELSE IF a.k = "inf" \/ b.k = "inf" THEN Inf
    ELSE Fin(a.n * b.d + b.n * a.d, a.d * b.d)

\* a - b for a finite b (the only use: 100 - 100 / (1 + rs)).
FSub(a, b) ==
    IF IsNaN(a) \/ IsNaN(b) \/ b.k = "inf" THEN NaN
    ELSE IF a.k = "inf" THEN Inf
    ELSE Fin(a.n * b.d - b.n * a.d, a.d * b.d)

FMul(a, b) ==
    IF IsNaN(a) \/ IsNaN(b) THEN NaN
    ELSE IF a.k = "inf" \/ b.k = "inf" THEN Inf
    ELSE Fin(a.n * b.n, a.d * b.d)

\* a / b for a, b >= 0, as numpy divides: x/0 is inf, 0/0 and inf/inf are NaN.
FDiv(a, b) ==
    IF IsNaN(a) \/ IsNaN(b) THEN NaN
    ELSE IF a.k = "inf" THEN (IF b.k = "inf" THEN NaN ELSE Inf)
    ELSE IF b.k = "inf" THEN Fin(0, 1)
    ELSE IF b.n = 0 THEN (IF a.n = 0 THEN NaN ELSE Inf)
    ELSE Fin(a.n * b.d, a.d * b.n)

(***************************************************************************)
(* analyze_stock_strength (lines 197-239).                                 *)
(* hist abstracts the 10-day history to what the function reads from it:   *)
(* whether the fetch raised, its number of rows, and the two quantities    *)
(* of lines 213 and 216, pct_chg in thousandths of a percent and           *)
(* vol_ratio in hundredths.                                                *)
(***************************************************************************)
MinHistRows == 5

\* The VPA labels of lines 219-235 and of the two early returns.
STRONG_UP_VOLUME   == "STRONG_UP_VOLUME"      \* line 223
QUIET_ACCUMULATION == "QUIET_ACCUMULATION"    \* line 225
STRONG_DOWN_VOLUME == "STRONG_DOWN_VOLUME"    \* line 227
QUIET_DISTRIBUTION == "QUIET_DISTRIBUTION"    \* line 229
LIMIT_UP           == "LIMIT_UP"              \* line 231
LIMIT_DOWN         == "LIMIT_DOWN"            \* line 233
NEUTRAL            == "NEUTRAL"               \* line 235
INSUFFICIENT_DATA  == "INSUFFICIENT_DATA"     \* line 206
ERROR              == "ERROR"                 \* line 239

\* The extremes tested before the volume bands: the order a reader of the
\* labels might expect, and not the order of the code.
classify_move_extremes_first(pct_chg, vol_ratio) ==
    IF pct_chg > 3000 THEN LIMIT_UP
    ELSE IF pct_chg < -3000 THEN LIMIT_DOWN
    ELSE IF pct_chg > 1500 /\ vol_ratio > 120 THEN STRONG_UP_VOLUME
    ELSE IF pct_chg > 500 /\ vol_ratio < 80 THEN QUIET_ACCUMULATION
    ELSE IF pct_chg < -1500 /\ vol_ratio > 120 THEN STRONG_DOWN_VOLUME
    ELSE IF pct_chg < -500 /\ vol_ratio < 80 THEN QUIET_DISTRIBUTION
    ELSE NEUTRAL

\* The strong-down band testing for a rise: a sign slip.
classify_move_sign_slip(pct_chg, vol_ratio) ==
    IF pct_chg > 1500 /\ vol_ratio > 120 THEN STRONG_UP_VOLUME
    ELSE IF pct_chg > 500 /\ vol_ratio < 80 THEN QUIET_ACCUMULATION
    ELSE IF pct_chg > -1500 /\ vol_ratio > 120 THEN STRONG_DOWN_VOLUME
    ELSE IF pct_chg < -500 /\ vol_ratio < 80 THEN QUIET_DISTRIBUTION
    ELSE IF pct_chg > 3000 THEN LIMIT_UP
    ELSE IF pct_chg < -3000 THEN LIMIT_DOWN
    ELSE NEUTRAL

\* Lines 219-235: the if/elif chain, in the order of the code.
classify_move(pct_chg, vol_ratio) ==
    IF pct_chg > 1500 /\ vol_ratio > 120 THEN STRONG_UP_VOLUME
    ELSE IF pct_chg > 500 /\ vol_ratio < 80 THEN QUIET_ACCUMULATION
    ELSE IF pct_chg < -1500 /\ vol_ratio > 120 THEN STRONG_DOWN_VOLUME
    ELSE IF pct_chg < -500 /\ vol_ratio < 80 THEN QUIET_DISTRIBUTION
    ELSE IF pct_chg > 3000 THEN LIMIT_UP
    ELSE IF pct_chg < -3000 THEN LIMIT_DOWN
    ELSE NEUTRAL

\* The whole function: the except branch, the short-history return, and the
\* rounded triple of line 237 (pct_chg to hundredths, vol_ratio to tenths).
\* The length check of line 205 left out: a short history is analysed as is.
analyze_stock_strength_any_length(h) ==
    IF h.raises THEN [pct_chg |-> 0, vol_ratio |-> 0, signal |-> ERROR]
    ELSE [pct_chg   |-> RoundHalfEven(h.pct_chg, 10),
          vol_ratio |-> RoundHalfEven(h.vol_ratio, 10),
          signal    |-> classify_move(h.pct_chg, h.vol_ratio)]

analyze_stock_strength(h) ==
    IF h.raises THEN [pct_chg |-> 0, vol_ratio |-> 0, signal |-> ERROR]
    ELSE IF h.rows = 0 \/ h.rows < MinHistRows
        THEN [pct_chg |-> 0, vol_ratio |-> 0, signal |-> INSUFFICIENT_DATA]
    ELSE [pct_chg   |-> RoundHalfEven(h.pct_chg, 10),
          vol_ratio |-> RoundHalfEven(h.vol_ratio, 10),
          signal    |-> classify_move(h.pct_chg, h.vol_ratio)]

\* Bounds of the histories tried: pct_chg = k * PctStep for |k| <= MaxPctSteps,
\* vol_ratio = k * VolStep for k <= MaxVolSteps.
PctStep     == 25
MaxPctSteps == 164
VolStep     == 5
MaxVolSteps == 32

Hist(raises, rows, pct_chg, vol_ratio) ==
    [raises |-> raises, rows |-> rows, pct_chg |-> pct_chg, vol_ratio |-> vol_ratio]

FullHists ==
    { Hist(FALSE, 10, p * PctStep, v * VolStep) :
        p \in -MaxPctSteps..MaxPctSteps, v \in 0..MaxVolSteps }

FailedHists == { Hist(TRUE, 0, 0, 0) } \cup { Hist(FALSE, r, 0, 0) : r \in 0..(MinHistRows - 1) }

NoHist == Hist(FALSE, 0, 0, 0)
VpaIdle == hist = NoHist /\ strength = None
EtfIdle ==
    /\ df_holdings = <<>> /\ i = 0 /\ bull_force = 0 /\ bear_force = 0
    /\ realtime_data = <<>> /\ status = None /\ histories = <<>>
TaIdle ==
    /\ df = <<>> /\ ma_short = 0 /\ ma_long = 0
    /\ frame = None /\ buys = {} /\ sells = {}
McIdle ==
    /\ ln_close = <<>> /\ days = 0 /\ drift = None /\ stdev = None
    /\ daily_returns = <<>> /\ price_paths = <<>> /\ first_paths = None
FftIdle ==
    /\ prices_len = 0 /\ fft_theo = <<>> /\ periods = <<>> /\ amps = <<>>
    /\ valid_mask = <<>> /\ dominant_period = None
DataIdle == ticker = None /\ download = None /\ e = None /\ data = None
HoldIdle == etf_code = None /\ response = None /\ holdings = None
ProviderIdle == DataIdle /\ HoldIdle

InitVPA ==
    /\ page = "analyze_stock_strength"
    /\ pc = "call"
    /\ hist \in FullHists \cup FailedHists
    /\ strength = None
    /\ EtfIdle /\ TaIdle /\ McIdle /\ FftIdle /\ ProviderIdle

AnalyzeStockStrength ==
    /\ page = "analyze_stock_strength"
    /\ pc = "call"
    /\ strength' = analyze_stock_strength(hist)
    /\ pc' = "returned"
    /\ UNCHANGED <<page, hist, etfVars, taVars, mcVars, fftVars, providerVars>>

NextVPA == AnalyzeStockStrength

SpecVPA == InitVPA /\ [][NextVPA]_vars

(***************************************************************************)
(* C1.  classify_move returns the first band that matches, in the fixed    *)
(* order STRONG_UP_VOLUME, QUIET_ACCUMULATION, STRONG_DOWN_VOLUME,         *)
(* QUIET_DISTRIBUTION, LIMIT_UP, LIMIT_DOWN, and NEUTRAL when none does;   *)
(* (2.0, 1.5) gives STRONG_UP_VOLUME, (0.2, 1.5) gives NEUTRAL, and the    *)
(* result is always exactly one of the seven signals.                      *)
(***************************************************************************)
BandNames ==
    <<STRONG_UP_VOLUME, QUIET_ACCUMULATION, STRONG_DOWN_VOLUME,
      QUIET_DISTRIBUTION, LIMIT_UP, LIMIT_DOWN, NEUTRAL>>

BandMatches(k, p, v) ==
    CASE k = 1 -> p > 1500 /\ v > 120
      [] k = 2 -> p > 500 /\ v < 80
      [] k = 3 -> p < -1500 /\ v > 120
      [] k = 4 -> p < -500 /\ v < 80
      [] k = 5 -> p > 3000
      [] k = 6 -> p < -3000
      [] OTHER -> TRUE

Classified == pc = "returned" /\ ~hist.raises /\ hist.rows >= MinHistRows

C1_FirstMatchingBand ==
    Classified =>
        /\ \E k \in 1..7 :
            /\ BandMatches(k, hist.pct_chg, hist.vol_ratio)
            /\ \A j \in 1..(k - 1) : ~BandMatches(j, hist.pct_chg, hist.vol_ratio)
            /\ strength.signal = BandNames[k]
        /\ Cardinality({k \in 1..7 : strength.signal = BandNames[k]}) = 1
        /\ (hist.pct_chg = 2000 /\ hist.vol_ratio = 150) => strength.signal = STRONG_UP_VOLUME
        /\ (hist.pct_chg = 200 /\ hist.vol_ratio = 150) => strength.signal = NEUTRAL

\* A move above 3% on heavy volume: both STRONG_UP_VOLUME and LIMIT_UP match,
\* and the earlier band is the one returned.
C1_Witness ==
    /\ Classified
    /\ hist.pct_chg > 3000 /\ hist.vol_ratio > 120
    /\ strength.signal = STRONG_UP_VOLUME

(***************************************************************************)
(* C2.  As stated: every input with pct_change < -3.0 and volume_ratio <   *)
(* 0.8, such as (-4.0, 0.5), is classified LIMIT_DOWN.                     *)
(***************************************************************************)
C2_ExtremeWinsOverQuiet ==
    (Classified /\ hist.pct_chg < -3000 /\ hist.vol_ratio < 80)
        => strength.signal = LIMIT_DOWN

(***************************************************************************)
(* C2, amended.  Every input with pct_change < -3.0 and volume_ratio < 0.8 *)
(* is classified QUIET_DISTRIBUTION, the quiet band being tested before    *)
(* the extreme band; LIMIT_DOWN is returned exactly when pct_change < -3.0 *)
(* and 0.8 <= volume_ratio <= 1.2.                                         *)
(***************************************************************************)
C2_QuietWinsOverExtreme ==
    Classified =>
        /\ (hist.pct_chg < -3000 /\ hist.vol_ratio < 80)
              => strength.signal = QUIET_DISTRIBUTION
        /\ strength.signal = LIMIT_DOWN
              <=> (hist.pct_chg < -3000 /\ hist.vol_ratio >= 80 /\ hist.vol_ratio <= 120)

C2_Witness ==
    /\ Classified
    /\ hist.pct_chg = -4000 /\ hist.vol_ratio = 50
    /\ strength.signal = QUIET_DISTRIBUTION

(***************************************************************************)
(* page_etf_analysis (lines 319-429): the scan of the ETF's top holdings.  *)
(* df_holdings is the table get_etf_holdings returned, one weight per row  *)
(* in hundredths of a percent.  Each pass of the loop asks yfinance for    *)
(* the holding's history, an input of that pass.                           *)
(***************************************************************************)
TopN == 10

ALL_IN_BULL == "ALL_IN_BULL"     \* line 393
LEAN_BULL   == "LEAN_BULL"       \* line 396
ALL_IN_BEAR == "ALL_IN_BEAR"     \* line 399
LEAN_BEAR   == "LEAN_BEAR"       \* line 402
NET_NEUTRAL == "NEUTRAL"         \* line 390

\* df_holdings.head(10), line 345.
head(table, k) == SubSeq(table, 1, IF Len(table) < k THEN Len(table) ELSE k)
top_10 == head(df_holdings, TopN)

\* The 15-point threshold taken inclusive: an off-by-one at the boundary.
net_status_inclusive(net_force) ==
    IF net_force >= 1500 THEN ALL_IN_BULL
    ELSE IF net_force > 500 THEN LEAN_BULL
    ELSE IF net_force < -1500 THEN ALL_IN_BEAR
    ELSE IF net_force < -500 THEN LEAN_BEAR
    ELSE NET_NEUTRAL

\* Lines 390-403.
net_status(net_force) ==
    IF net_force > 1500 THEN ALL_IN_BULL
    ELSE IF net_force > 500 THEN LEAN_BULL
    ELSE IF net_force < -1500 THEN ALL_IN_BEAR
    ELSE IF net_force < -500 THEN LEAN_BEAR
    ELSE NET_NEUTRAL

\* The tables and the histories tried.  A table has at most MaxHoldings rows.
MaxHoldings == 2
WeightValues == {0, 200, 500, 501, 1500, 1501, 2000}
HoldingTables == UNION { [1..n -> WeightValues] : n \in 0..MaxHoldings }
HoldingHists ==
    { Hist(TRUE, 0, 0, 0), Hist(FALSE, 3, 0, 0),
      Hist(FALSE, 10, -2000, 150), Hist(FALSE, 10, -4, 100),
      Hist(FALSE, 10, 4, 100), Hist(FALSE, 10, 700, 50) }

InitETF ==
    /\ page = "page_etf_analysis"
    /\ pc = "button"
    /\ df_holdings \in HoldingTables
    /\ i = 0 /\ bull_force = 0 /\ bear_force = 0
    /\ realtime_data = <<>> /\ status = None /\ histories = <<>>
    /\ VpaIdle /\ TaIdle /\ McIdle /\ FftIdle /\ ProviderIdle

\* Line 342, else branch (line 429): an empty table ends the handler.
ETFNoData ==
    /\ page = "page_etf_analysis" /\ pc = "button"
    /\ df_holdings = <<>>
    /\ pc' = "error"
    /\ UNCHANGED <<page, vpaVars, etfVars, taVars, mcVars, fftVars, providerVars>>

\* Lines 342-352: the table is there, the counters start at 0.
ETFBeginScan ==
    /\ page = "page_etf_analysis" /\ pc = "button"
    /\ df_holdings # <<>>
    /\ realtime_data' = <<>>
    /\ histories' = <<>>
    /\ bull_force' = 0
    /\ bear_force' = 0
    /\ i' = 0
    /\ pc' = "scan"
    /\ UNCHANGED <<page, vpaVars, df_holdings, status, taVars, mcVars, fftVars, providerVars>>

\* Lines 354-379: one pass of the loop over top_10.
ETFScanHolding ==
    /\ page = "page_etf_analysis" /\ pc = "scan"
    /\ i < Len(top_10)
    /\ \E h \in HoldingHists :
        LET weight == top_10[i + 1]
            r == analyze_stock_strength(h)
        IN  /\ bull_force' = IF r.pct_chg > 0 THEN bull_force + weight ELSE bull_force
            /\ bear_force' = IF r.pct_chg < 0 THEN bear_force + weight ELSE bear_force
            /\ realtime_data' = Append(realtime_data,
                   [weight |-> weight, pct_chg |-> r.pct_chg, vol_ratio |-> r.vol_ratio,
                    signal |-> r.signal, contribution |-> weight * r.pct_chg])
            /\ histories' = Append(histories, h)
    /\ i' = i + 1
    /\ UNCHANGED <<page, pc, vpaVars, df_holdings, status, taVars, mcVars, fftVars, providerVars>>

\* Lines 384-405: the loop is over, the net force is classified.
ETFSummary ==
    /\ page = "page_etf_analysis" /\ pc = "scan"
    /\ i = Len(top_10)
    /\ status' = net_status(bull_force - bear_force)
    /\ pc' = "done"
    /\ UNCHANGED <<page, vpaVars, df_holdings, i, bull_force, bear_force, realtime_data, histories, taVars, mcVars, fftVars, providerVars>>

NextETF == ETFNoData \/ ETFBeginScan \/ ETFScanHolding \/ ETFSummary

SpecETF == InitETF /\ [][NextETF]_vars

(***************************************************************************)
(* C3.  After the scan bull_force is the sum of the weights of the         *)
(* holdings with pct_change > 0 and bear_force the sum over those with     *)
(* pct_change < 0; with net = bull_force - bear_force the status is        *)
(* ALL_IN_BULL when net > 15, LEAN_BULL when 5 < net <= 15, ALL_IN_BEAR    *)
(* when net < -15, LEAN_BEAR when -15 <= net < -5 and NEUTRAL otherwise;   *)
(* 20 bullish and 2 bearish give net 18 and ALL_IN_BULL.                   *)
(***************************************************************************)
RECURSIVE WeightWhere(_, _)
WeightWhere(rows, sign) ==
    IF rows = <<>> THEN 0
    ELSE (IF (sign > 0 /\ Head(rows).pct_chg > 0) \/ (sign < 0 /\ Head(rows).pct_chg < 0)
            THEN Head(rows).weight ELSE 0)
         + WeightWhere(Tail(rows), sign)

C3_AggregateForce ==
    (page = "page_etf_analysis" /\ pc = "done") =>
        LET net == bull_force - bear_force
        IN  /\ Len(realtime_data) = Len(df_holdings)
            /\ \A k \in 1..Len(df_holdings) : realtime_data[k].weight = df_holdings[k]
            /\ bull_force = WeightWhere(realtime_data, 1)
            /\ bear_force = WeightWhere(realtime_data, -1)
            /\ net > 1500 => status = ALL_IN_BULL
            /\ (500 < net /\ net <= 1500) => status = LEAN_BULL
            /\ net < -1500 => status = ALL_IN_BEAR
            /\ (-1500 <= net /\ net < -500) => status = LEAN_BEAR
            /\ (-500 <= net /\ net <= 500) => status = NET_NEUTRAL
            /\ (bull_force = 2000 /\ bear_force = 200) => (net = 1800 /\ status = ALL_IN_BULL)

C3_Witness ==
    /\ page = "page_etf_analysis" /\ pc = "done"
    /\ bull_force = 2000 /\ bear_force = 200
    /\ status = ALL_IN_BULL

(***************************************************************************)
(* calculate_indicators (lines 241-249) over the Close column, a sequence  *)
(* of positive integers.  Bar p of the model is index p - 1 of the frame.  *)
(***************************************************************************)
RSI_WINDOW == 14

\* roll_mean of pandas' window aggregations, for the fixed window w: one pass
\* over the len bars with a running sum to which the entering bar is added and
\* from which the bar leaving the window is removed; nobs counts the bars in
\* the window, and the mean is NaN while nobs < minp.
RECURSIVE roll_mean(_, _, _, _, _, _, _)
roll_mean(x, len, w, minp, p, sum_x, out) ==
    IF p > len THEN out
    ELSE LET added == sum_x + x[p] - (IF p > w THEN x[p - w] ELSE 0)
             nobs == IF p > w THEN w ELSE p
         IN  roll_mean(x, len, w, minp, p + 1, added,
                            Append(out, IF nobs >= minp /\ nobs > 0
                                          THEN Fin(added, nobs) ELSE NaN))

\* min_periods one short of the window: the mean of w - 1 bars is reported on
\* bar w - 1.
rolling_mean_early(x, w) == roll_mean(x, Len(x), w, w - 1, 1, 0, <<>>)

\* Series.rolling(window = w).mean(): min_periods defaults to the window.
rolling_mean(x, w) == roll_mean(x, Len(x), w, w, 1, 0, <<>>)

\* Series.diff(): NaN on the first bar.
diff(x) == [p \in 1..Len(x) |-> IF p = 1 THEN NaN ELSE Fin(x[p] - x[p - 1], 1)]

\* delta.where(delta > 0, 0): the value where the test is True, else 0; the
\* test is False on a NaN, which so becomes 0 (line 245).
gains(delta) ==
    [p \in 1..Len(delta) |-> IF FGt(delta[p], Fin(0, 1)) THEN delta[p].n ELSE 0]

\* -delta.where(delta < 0, 0), line 246.
losses(delta) ==
    [p \in 1..Len(delta) |-> IF FGt(Fin(0, 1), delta[p]) THEN -delta[p].n ELSE 0]

\* Line 248 on one bar: 100 - 100 / (1 + rs).
rsi_value(rs) == FSub(Fin(100, 1), FDiv(Fin(100, 1), FAdd(Fin(1, 1), rs)))

\* Lines 247-248 bar by bar: rs = gain / loss, then the RSI.
RECURSIVE rsi_column(_, _, _, _)
rsi_column(gain, loss, p, out) ==
    IF p > Len(gain) THEN out
    ELSE rsi_column(gain, loss, p + 1, Append(out, rsi_value(FDiv(gain[p], loss[p]))))

\* Lines 244-248.
rsi(close) ==
    LET delta == diff(close)
        gain == rolling_mean(gains(delta), RSI_WINDOW)
        loss == rolling_mean(losses(delta), RSI_WINDOW)
    IN  rsi_column(gain, loss, 1, <<>>)

calculate_indicators(close, short, long) ==
    [MA_Short |-> rolling_mean(close, short),
     MA_Long  |-> rolling_mean(close, long),
     RSI      |-> rsi(close)]

\* The markers read off Signal instead of Position: every bar with the short
\* average on top is marked, not only the bar of the crossing.
position_without_diff(signal) ==
    [p \in 1..Len(signal) |-> Fin(signal[p], 1)]

\* Line 290: np.where(MA_Short > MA_Long, 1.0, 0.0).
signal_of(fr) ==
    [p \in 1..Len(fr.MA_Short) |-> IF FGt(fr.MA_Short[p], fr.MA_Long[p]) THEN 1 ELSE 0]

\* Line 291: df['Signal'].diff().
position_of(signal) ==
    [p \in 1..Len(signal) |-> IF p = 1 THEN NaN ELSE Fin(signal[p] - signal[p - 1], 1)]

\* The series and windows tried.  The sliders (5..60 and 20..200, which
\* overlap) are scaled down to 1..MaxShort and 2..MaxLong.
MaxBars  == 4
MaxClose == 3
MaxShort == 3
MaxLong  == 3
\* Longer series for the 14-bar RSI: RunBars bars or fewer, a first run of
\* steps d1 and a second run of steps d2, each step in RunSteps.
MaxRunBars == 16
RunSteps   == {-1, 0, 1}

ShortSeries == UNION { [1..n -> 1..MaxClose] : n \in 0..MaxBars }

\* The worked example of a rolling mean: closes 1..5.
ExampleSeries == { <<1, 2, 3, 4, 5>> }

RunSeries ==
    { [p \in 1..n |->
          (MaxRunBars + 1)
          + (IF p - 1 <= a THEN (p - 1) * d1 ELSE a * d1 + (p - 1 - a) * d2)] :
        n \in (RSI_WINDOW - 1)..MaxRunBars, a \in 0..MaxRunBars,
        d1 \in RunSteps, d2 \in RunSteps }

InitAnalysis ==
    /\ page = "page_analysis"
    /\ pc = "button"
    /\ df \in ShortSeries \cup RunSeries \cup ExampleSeries
    /\ ma_short \in 1..MaxShort
    /\ ma_long \in 2..MaxLong
    /\ frame = None /\ buys = {} /\ sells = {}
    /\ VpaIdle /\ EtfIdle /\ McIdle /\ FftIdle /\ ProviderIdle

\* Lines 286-287: no rows, or fewer rows than the long window.
AnalysisNoData ==
    /\ page = "page_analysis" /\ pc = "button"
    /\ (df = <<>> \/ Len(df) < ma_long)
    /\ pc' = "error"
    /\ UNCHANGED <<page, vpaVars, etfVars, taVars, mcVars, fftVars, providerVars>>

\* Lines 289-291: the indicator columns, Signal and Position.
AnalysisIndicators ==
    /\ page = "page_analysis" /\ pc = "button"
    /\ ~(df = <<>> \/ Len(df) < ma_long)
    /\ LET fr == calculate_indicators(df, ma_short, ma_long)
           sg == signal_of(fr)
       IN  frame' = [MA_Short |-> fr.MA_Short, MA_Long |-> fr.MA_Long, RSI |-> fr.RSI,
                     Signal |-> sg, Position |-> position_of(sg)]
    /\ pc' = "chart"
    /\ UNCHANGED <<page, vpaVars, etfVars, df, ma_short, ma_long, buys, sells, mcVars, fftVars, providerVars>>

\* Lines 302-305: the buy and sell markers.
AnalysisMarkers ==
    /\ page = "page_analysis" /\ pc = "chart"
    /\ buys' = {p \in 1..Len(df) : FEq(frame.Position[p], Fin(1, 1))}
    /\ sells' = {p \in 1..Len(df) : FEq(frame.Position[p], Fin(-1, 1))}
    /\ pc' = "done"
    /\ UNCHANGED <<page, vpaVars, etfVars, df, ma_short, ma_long, frame, mcVars, fftVars, providerVars>>

NextAnalysis == AnalysisNoData \/ AnalysisIndicators \/ AnalysisMarkers

SpecAnalysis == InitAnalysis /\ [][NextAnalysis]_vars

Charted == page = "page_analysis" /\ pc = "done"
Events == buys \cup sells
BothDefined(p) == IsFin(frame.MA_Short[p]) /\ IsFin(frame.MA_Long[p])

(***************************************************************************)
(* C4.  Crossover events are emitted only on bars where both moving        *)
(* averages are defined, a bar carries at most one event, and GOLDEN and   *)
(* DEATH alternate in date order: two events with no event between them    *)
(* have different directions.                                              *)
(***************************************************************************)
C4_EventsAlternate ==
    Charted =>
        /\ \A p \in Events : BothDefined(p)
        /\ buys \cap sells = {}
        /\ \A p, q \in Events :
              (p < q /\ \A r \in Events : ~(p < r /\ r < q))
                  => ((p \in buys) # (q \in buys))

\* A GOLDEN, then a DEATH, then a GOLDEN again.
C4_Witness ==
    /\ Charted
    /\ \E p \in buys, q \in sells, r \in buys : p < q /\ q < r

(***************************************************************************)
(* C5.  A GOLDEN event on bar p needs both averages defined on bars p - 1  *)
(* and p, short <= long on p - 1 and short > long on p, and a DEATH event  *)
(* the reverse; a bar with an undefined average yields no signal value and *)
(* no crossover, so the first bar on which both averages are defined       *)
(* carries no event.                                                       *)
(***************************************************************************)
FirstDefined(p) == BothDefined(p) /\ \A q \in 1..(p - 1) : ~BothDefined(q)

C5_CrossoverNeedsTwoDefinedBars ==
    Charted =>
        /\ \A p \in buys :
              /\ p > 1 /\ BothDefined(p - 1) /\ BothDefined(p)
              /\ ~FGt(frame.MA_Short[p - 1], frame.MA_Long[p - 1])
              /\ FGt(frame.MA_Short[p], frame.MA_Long[p])
        /\ \A p \in sells :
              /\ p > 1 /\ BothDefined(p - 1) /\ BothDefined(p)
              /\ FGt(frame.MA_Short[p - 1], frame.MA_Long[p - 1])
              /\ ~FGt(frame.MA_Short[p], frame.MA_Long[p])
        /\ \A p \in 1..Len(df) : FirstDefined(p) => p \notin Events

(***************************************************************************)
(* C6.  The frame has as many rows as the series, and for each window w    *)
(* the moving average is undefined before bar w and is, from bar w on, the *)
(* arithmetic mean of the w closes ending at the bar; a series shorter     *)
(* than the window gives a column that is undefined throughout.  Closes    *)
(* 1, 2, 3, 4, 5 with window 3 give 2, 3, 4 on the last three bars.        *)
(***************************************************************************)
IsRollingMean(col, w) ==
    /\ Len(col) = Len(df)
    /\ \A p \in 1..Len(df) :
          IF p < w THEN IsNaN(col[p])
          ELSE /\ IsFin(col[p])
               /\ col[p].n * w = col[p].d * SumSeq(SubSeq(df, p - w + 1, p))

C6_MovingAverage ==
    (page = "page_analysis" /\ pc \in {"chart", "done"}) =>
        /\ IsRollingMean(frame.MA_Short, ma_short)
        /\ IsRollingMean(frame.MA_Long, ma_long)
        /\ Len(frame.RSI) = Len(df)
        /\ (df = <<1, 2, 3, 4, 5>> /\ ma_short = 3) =>
              /\ IsNaN(frame.MA_Short[1]) /\ IsNaN(frame.MA_Short[2])
              /\ FEq(frame.MA_Short[3], Fin(2, 1))
              /\ FEq(frame.MA_Short[4], Fin(3, 1))
              /\ FEq(frame.MA_Short[5], Fin(4, 1))

C6_Witness ==
    /\ Charted
    /\ df = <<1, 2, 3, 4, 5>> /\ ma_short = 3
    /\ FEq(frame.MA_Short[5], Fin(4, 1))

(***************************************************************************)
(* C7.  RSI(14) is undefined until 14 deltas exist, that is on the first   *)
(* 14 bars; wherever it is defined it lies in [0, 100]; and when the 14    *)
(* trailing deltas hold no loss and some gain it is exactly 100, neither   *)
(* infinite nor undefined.                                                 *)
(***************************************************************************)
TrailingGain(p) ==
    SumSeq([q \in 1..RSI_WINDOW |->
        LET c == df[p - RSI_WINDOW + q] - df[p - RSI_WINDOW + q - 1]
        IN  IF c > 0 THEN c ELSE 0])
TrailingLoss(p) ==
    SumSeq([q \in 1..RSI_WINDOW |->
        LET c == df[p - RSI_WINDOW + q] - df[p - RSI_WINDOW + q - 1]
        IN  IF c < 0 THEN -c ELSE 0])

C7_RsiRange ==
    Charted =>
        \A p \in 1..Len(df) :
            /\ p <= RSI_WINDOW => IsNaN(frame.RSI[p])
            /\ frame.RSI[p].k # "inf"
            /\ IsFin(frame.RSI[p]) =>
                  /\ 0 <= frame.RSI[p].n
                  /\ frame.RSI[p].n <= 100 * frame.RSI[p].d
            /\ (p > RSI_WINDOW /\ TrailingLoss(p) = 0 /\ TrailingGain(p) > 0)
                  => FEq(frame.RSI[p], Fin(100, 1))

(***************************************************************************)
(* page_monte_carlo (lines 432-474).  Prices are held by their natural     *)
(* logarithm, so that np.log, np.exp and the products of line 461 are      *)
(* exact: ln_close[p] is ln of the p-th close, and a simulated value is    *)
(* the record [k, a, z] standing for exp(a + z * stdev), or NaN.  A        *)
(* standard normal draw is an integer of ZValues.                          *)
(***************************************************************************)
PNaN == [k |-> "nan", a |-> Fin(0, 1), z |-> 0]
PVal(a, z) == [k |-> "fin", a |-> a, z |-> z]

\* Line 447: ln(Close / Close.shift(1)), NaN on the first bar.
log_returns(lc) == diff(lc)

\* Series.mean(), line 448: the mean of the values that are not NaN.
mean_skipna(r) ==
    LET vals == [p \in 1..(Len(r) - 1) |-> r[p + 1].n]
    IN  IF Len(r) < 2 THEN NaN ELSE Fin(SumSeq(vals), Len(vals))

\* Series.var(), line 449: the sample variance (ddof = 1), NaN below 2 values.
var_skipna(r) ==
    LET vals == [p \in 1..(Len(r) - 1) |-> r[p + 1].n]
        m == Len(vals)
        sq == [p \in 1..m |-> vals[p] * vals[p]]
    IN  IF Len(r) < 3 THEN NaN
        ELSE Fin(m * SumSeq(sq) - SumSeq(vals) * SumSeq(vals), m * (m - 1))

\* Line 455 for one draw z: exp(drift + stdev * z).  stdev * z is 0 when the
\* variance is 0.
daily_return(dr, sd2, z) ==
    IF IsNaN(dr) \/ IsNaN(sd2) THEN PNaN
    ELSE PVal(dr, IF sd2.n = 0 THEN 0 ELSE z)

\* x * y on simulated values.
PMul(x, y) ==
    IF x.k = "nan" \/ y.k = "nan" THEN PNaN
    ELSE PVal(FAdd(x.a, y.a), x.z + y.z)

\* The loop compounding with the return of the step before: an index slip.
RECURSIVE price_rows_lagged(_, _, _)
price_rows_lagged(rows, returns, t) ==
    IF t > Len(returns) THEN rows
    ELSE price_rows_lagged(
             Append(rows, [j \in 1..Len(returns[t]) |-> PMul(rows[t - 1][j], returns[t - 1][j])]),
             returns, t + 1)

\* Lines 460-461: row t is row t - 1 times the returns of step t.  Row t of
\* the model is index t - 1 of the arrays.
RECURSIVE price_rows(_, _, _)
price_rows(rows, returns, t) ==
    IF t > Len(returns) THEN rows
    ELSE price_rows(
             Append(rows, [j \in 1..Len(returns[t]) |-> PMul(rows[t - 1][j], returns[t][j])]),
             returns, t + 1)

\* The first row multiplied by its returns as well: the path starts one step
\* after the last close.
simulate_paths_from_step_one(last_close, returns) ==
    price_rows(<<[j \in 1..Len(returns[1]) |-> PMul(PVal(Fin(last_close, 1), 0), returns[1][j])]>>,
               returns, 2)

simulate_paths_lagged(last_close, returns) ==
    price_rows_lagged(<<[j \in 1..Len(returns[1]) |-> PVal(Fin(last_close, 1), 0)]>>,
                      returns, 2)

\* Lines 457-461: zeros_like, the first row set to the last close, the loop.
simulate_paths(last_close, returns) ==
    price_rows(<<[j \in 1..Len(returns[1]) |-> PVal(Fin(last_close, 1), 0)]>>,
               returns, 2)

\* The slider (30..180) is scaled down to 1..MaxDays, the 50 simulations of
\* line 453 to Simulations.
MaxDays     == 2
Simulations == 2
ZValues     == {-1, 1}
McSeries    == { <<>>, <<0>>, <<0, 1>>, <<0, 0, 0>>, <<2, 1, 1, 3>> }

InitMC ==
    /\ page = "page_monte_carlo"
    /\ pc = "button"
    /\ ln_close \in McSeries
    /\ days \in 1..MaxDays
    /\ drift = None /\ stdev = None
    /\ daily_returns = <<>> /\ price_paths = <<>> /\ first_paths = None
    /\ VpaIdle /\ EtfIdle /\ TaIdle /\ FftIdle /\ ProviderIdle

\* Line 446, else branch (line 474): an empty frame.
MCNoData ==
    /\ page = "page_monte_carlo" /\ pc = "button"
    /\ ln_close = <<>>
    /\ pc' = "error"
    /\ UNCHANGED <<page, vpaVars, etfVars, taVars, mcVars, fftVars, providerVars>>

\* Lines 447-461: the statistics, the draws of np.random.normal (no seed is
\* set anywhere: any matrix of draws may come), the paths.
MCSimulate ==
    /\ page = "page_monte_carlo" /\ pc = "button"
    /\ ln_close # <<>>
    /\ \E Z \in [1..days -> [1..Simulations -> ZValues]] :
        LET lr == log_returns(ln_close)
            u == mean_skipna(lr)
            var == var_skipna(lr)
            dr == FSub(u, FMul(Fin(1, 2), var))
            returns == [t \in 1..days |-> [j \in 1..Simulations |-> daily_return(dr, var, Z[t][j])]]
        IN  /\ drift' = dr
            /\ stdev' = var
            /\ daily_returns' = returns
            /\ price_paths' = simulate_paths(ln_close[Len(ln_close)], returns)
    /\ pc' = "done"
    /\ UNCHANGED <<page, vpaVars, etfVars, taVars, ln_close, days, first_paths, fftVars, providerVars>>

\* The button is pressed again with the widgets unchanged: the script runs
\* once more on the same series (get_stock_data is cached, lines 32-33), its
\* locals fresh; first_paths remembers what the run before displayed.
MCPressAgain ==
    /\ page = "page_monte_carlo" /\ pc = "done"
    /\ first_paths = None
    /\ first_paths' = price_paths
    /\ drift' = None /\ stdev' = None
    /\ daily_returns' = <<>> /\ price_paths' = <<>>
    /\ pc' = "button"
    /\ UNCHANGED <<page, vpaVars, etfVars, taVars, ln_close, days, fftVars, providerVars>>

NextMC == MCNoData \/ MCSimulate \/ MCPressAgain

SpecMC == InitMC /\ [][NextMC]_vars

MCDone == page = "page_monte_carlo" /\ pc = "done"
SecondRun == MCDone /\ first_paths # None

(***************************************************************************)
(* C8.  Every simulated path has exactly horizon_days values, its value at *)
(* step 0 is the last observed close, and its value at every step t >= 1   *)
(* is its value at step t - 1 times the daily return drawn for that path   *)
(* and step; all daily returns of an ensemble have the one drift and the   *)
(* one volatility.                                                         *)
(***************************************************************************)
C8_PathRecurrence ==
    MCDone =>
        /\ Len(price_paths) = days
        /\ \A t \in 1..days : DOMAIN price_paths[t] = 1..Simulations
        /\ \A j \in 1..Simulations :
              price_paths[1][j] = PVal(Fin(ln_close[Len(ln_close)], 1), 0)
        /\ \A t \in 2..days, j \in 1..Simulations :
              LET prev == price_paths[t - 1][j]
                  ret == daily_returns[t][j]
                  cur == price_paths[t][j]
              IN  IF prev.k = "nan" \/ ret.k = "nan" THEN cur.k = "nan"
                  ELSE /\ cur.k = "fin"
                       /\ FEq(cur.a, FAdd(prev.a, ret.a))
                       /\ cur.z = prev.z + ret.z
        /\ \A t \in 1..days, j \in 1..Simulations :
              IF IsNaN(drift) \/ IsNaN(stdev) THEN daily_returns[t][j].k = "nan"
              ELSE /\ daily_returns[t][j].k = "fin"
                   /\ daily_returns[t][j].a = drift
                   /\ stdev.n = 0 => daily_returns[t][j].z = 0

\* A path that has moved away from the drift line by its last step.
C8_Witness ==
    /\ MCDone
    /\ price_paths[days][1].k = "fin"
    /\ price_paths[days][1].z # 0

PERIOD_MIN == 5
PERIOD_MAX == 200

\* np.fft.fftfreq(n), line 494, as numerators over n: 0, 1, ..., (n-1)/2 and
\* then the negative frequencies -(n/2), ..., -1.
fftfreq(n) ==
    [b \in 1..n |-> IF b - 1 <= (n - 1) \div 2 THEN b - 1 ELSE b - 1 - n]

\* a[mask]: the entries of a where mask is True, in order.
RECURSIVE select_range(_, _, _, _)
select_range(a, mask, lo, hi) ==
    IF lo > hi THEN <<>>
    ELSE IF lo = hi THEN (IF mask[lo] THEN <<a[lo]>> ELSE <<>>)
    ELSE LET mid == (lo + hi) \div 2
         IN  select_range(a, mask, lo, mid) \o select_range(a, mask, mid + 1, hi)

select(a, mask) == select_range(a, mask, 1, Len(a))

\* np.argmax: the first index of the largest entry (a is not empty).
argmax(a) ==
    CHOOSE p \in 1..Len(a) :
        /\ \A q \in 1..Len(a) : a[q] <= a[p]
        /\ \A q \in 1..(p - 1) : a[q] < a[p]

\* Line 511: (periods >= 5) & (periods <= 200).
in_band(period) ==
    /\ ~FGt(Fin(PERIOD_MIN, 1), period) /\ IsFin(period)
    /\ ~FGt(period, Fin(PERIOD_MAX, 1))

\* The spectra tried.  Short series get every spectrum with amplitudes up to
\* MaxAmp; the two long series, on either side of the 200-bar period, get
\* spectra with two peaks.
MaxFftBars == 11
MaxAmp     == 2
LongBars   == {200, 201}
PeakBins   == {1, 2, 3, 40, 41, 100}

Min2(a, b) == IF a < b THEN a ELSE b
spectrum(n, half) ==
    [b \in 1..n |-> IF b = 1 THEN 0 ELSE half[Min2(b - 1, n - (b - 1))]]

ShortSpectra(n) == { spectrum(n, half) : half \in [1..(n \div 2) -> 0..MaxAmp] }
PeakSpectra(n) ==
    { spectrum(n, [k \in 1..(n \div 2) |-> IF k = p THEN a ELSE IF k = q THEN c ELSE 0]) :
        p \in PeakBins, q \in PeakBins, a \in 1..MaxAmp, c \in 1..MaxAmp }

\* Line 502: 1 / freqs, the frequencies being numerators over n.
reciprocals(freqs, n) ==
    [p \in 1..Len(freqs) |-> FDiv(Fin(1, 1), Fin(freqs[p], n))]

InitFFT ==
    /\ page = "page_fft"
    /\ pc = "button"
    /\ prices_len \in (0..MaxFftBars) \cup LongBars
    /\ fft_theo \in (IF prices_len \in LongBars THEN PeakSpectra(prices_len)
                     ELSE ShortSpectra(prices_len))
    /\ periods = <<>> /\ amps = <<>> /\ valid_mask = <<>> /\ dominant_period = None
    /\ VpaIdle /\ EtfIdle /\ TaIdle /\ McIdle /\ ProviderIdle

\* Line 487, else branch: an empty frame ends the handler silently.
FFTNoData ==
    /\ page = "page_fft" /\ pc = "button"
    /\ prices_len = 0
    /\ pc' = "no_data"
    /\ UNCHANGED <<page, vpaVars, etfVars, taVars, mcVars, fftVars, providerVars>>

\* Lines 488-518: the positive frequencies, their periods and amplitudes,
\* the band mask, the chart.
FFTSpectrum ==
    /\ page = "page_fft" /\ pc = "button"
    /\ prices_len # 0
    /\ LET n == prices_len
           freq == fftfreq(n)
           mask == [b \in 1..n |-> freq[b] > 0]
           freqs == select(freq, mask)
       IN  /\ amps' = select(fft_theo, mask)
           /\ periods' = reciprocals(freqs, n)
    /\ valid_mask' = [p \in 1..Len(periods') |-> in_band(periods'[p])]
    /\ pc' = "chart"
    /\ UNCHANGED <<page, vpaVars, etfVars, taVars, mcVars, providerVars, prices_len, fft_theo, dominant_period>>

\* Lines 520-522 when the band holds a component.
FFTPeak ==
    /\ page = "page_fft" /\ pc = "chart"
    /\ select(amps, valid_mask) # <<>>
    /\ LET peak_idx == argmax(select(amps, valid_mask))
       IN  dominant_period' = select(periods, valid_mask)[peak_idx]
    /\ pc' = "done"
    /\ UNCHANGED <<page, vpaVars, etfVars, taVars, mcVars, providerVars, prices_len, fft_theo,
                   periods, amps, valid_mask>>

\* Line 520 when the band is empty: np.argmax of an empty array raises
\* ValueError, which nothing catches.
FFTPeakRaises ==
    /\ page = "page_fft" /\ pc = "chart"
    /\ select(amps, valid_mask) = <<>>
    /\ pc' = "ValueError"
    /\ UNCHANGED <<page, vpaVars, etfVars, taVars, mcVars, fftVars, providerVars>>

NextFFT == FFTNoData \/ FFTSpectrum \/ FFTPeak \/ FFTPeakRaises

SpecFFT == InitFFT /\ [][NextFFT]_vars

(***************************************************************************)
(* C10.  For every length n the analysis keeps exactly the positive        *)
(* frequency components whose period n/k lies in [5, 200] and reports the  *)
(* kept component of largest amplitude as dominant; when no component is   *)
(* in the band, as for a short series, it reports dominant = None and does *)
(* not fail.                                                               *)
(***************************************************************************)
KeptBins ==
    { k \in 1..((prices_len - 1) \div 2) :
        PERIOD_MIN * k <= prices_len /\ prices_len <= PERIOD_MAX * k }

C10_DominantOrNone ==
    page = "page_fft" =>
        /\ pc # "ValueError"
        /\ pc = "done" =>
              IF KeptBins = {} THEN dominant_period = None
              ELSE \E k \in KeptBins :
                      /\ FEq(dominant_period, Fin(prices_len, k))
                      /\ \A other \in KeptBins : fft_theo[other + 1] <= fft_theo[k + 1]

(***************************************************************************)
(* get_stock_data (lines 32-40).  yf.download either raises or returns a   *)
(* frame, whose columns are flat or a MultiIndex with the tickers on level *)
(* 1; a frame is held by its number of rows.                               *)
(***************************************************************************)
\* pd.DataFrame(): no rows, no columns.
EmptyFrame == [rows |-> 0, columns |-> "none"]

\* The errors a download or a lookup raises, all subclasses of Exception.
NetworkErrors == {"ConnectionError", "Timeout", "HTTPError", "JSONDecodeError"}
LookupErrors  == {"KeyError"}
ExceptionSubclasses == NetworkErrors \cup LookupErrors \cup {"ValueError"}

\* An except clause naming KeyError alone: the network errors escape.
handles_lookup_only(err) == err \in LookupErrors

\* Line 39: except Exception.
handles(err) == err \in ExceptionSubclasses

\* Line 37: data.xs(ticker, axis=1, level=1), KeyError when the ticker is
\* not on level 1.
xs(fr, key) ==
    IF key \in fr.tickers THEN [value |-> [rows |-> fr.rows, columns |-> "flat"], raises |-> None]
    ELSE [value |-> None, raises |-> "KeyError"]

MaxRows == 3
Tickers == {"2330.TW", "AAPL"}
Downloads ==
    { [kind |-> "raises", error |-> err, rows |-> 0, columns |-> "none", tickers |-> {}] :
        err \in NetworkErrors \cup LookupErrors }
    \cup { [kind |-> "frame", error |-> None, rows |-> n, columns |-> "flat", tickers |-> {}] :
             n \in 0..MaxRows }
    \cup { [kind |-> "frame", error |-> None, rows |-> n, columns |-> "multi", tickers |-> T] :
             n \in 0..MaxRows, T \in SUBSET Tickers }

InitData ==
    /\ page = "get_stock_data"
    /\ pc = "call"
    /\ ticker \in Tickers
    /\ download \in Downloads
    /\ e = None /\ data = None
    /\ VpaIdle /\ EtfIdle /\ TaIdle /\ McIdle /\ FftIdle /\ HoldIdle

\* Line 35.
GetStockDataDownload ==
    /\ page = "get_stock_data" /\ pc = "call"
    /\ IF download.kind = "raises"
       THEN e' = download.error /\ pc' = "except" /\ data' = data
       ELSE data' = [rows |-> download.rows, columns |-> download.columns]
            /\ pc' = "downloaded" /\ e' = e
    /\ UNCHANGED <<page, vpaVars, etfVars, taVars, mcVars, fftVars, ticker, download, holdVars>>

\* Lines 36-38.
GetStockDataSelect ==
    /\ page = "get_stock_data" /\ pc = "downloaded"
    /\ IF data.columns = "multi"
       THEN LET got == xs(download, ticker)
            IN  IF got.raises # None
                THEN e' = got.raises /\ pc' = "except" /\ data' = data
                ELSE data' = got.value /\ pc' = "returned" /\ e' = e
       ELSE pc' = "returned" /\ UNCHANGED <<e, data>>
    /\ UNCHANGED <<page, vpaVars, etfVars, taVars, mcVars, fftVars, ticker, download, holdVars>>

\* Lines 39-40: the handler, or the exception leaving the function.
GetStockDataExcept ==
    /\ page = "get_stock_data" /\ pc = "except"
    /\ IF handles(e)
       THEN data' = EmptyFrame /\ pc' = "returned"
       ELSE data' = data /\ pc' = "raised"
    /\ UNCHANGED <<page, vpaVars, etfVars, taVars, mcVars, fftVars, ticker, download, e, holdVars>>

NextData == GetStockDataDownload \/ GetStockDataSelect \/ GetStockDataExcept

SpecData == InitData /\ [][NextData]_vars

(***************************************************************************)
(* C11.  get_stock_data never lets an exception escape: when the download  *)
(* or the lookup of the ticker raises, it returns an empty frame.          *)
(***************************************************************************)
DownloadFailed ==
    \/ download.kind = "raises"
    \/ download.columns = "multi" /\ ticker \notin download.tickers

C11_NoExceptionEscapes ==
    page = "get_stock_data" =>
        /\ pc # "raised"
        /\ (pc = "returned" /\ DownloadFailed) => data = EmptyFrame
        /\ (pc = "returned" /\ ~DownloadFailed) => data.rows = download.rows

C11_Witness ==
    /\ page = "get_stock_data" /\ pc = "returned"
    /\ download.kind = "raises" /\ download.error = "ConnectionError"
    /\ data = EmptyFrame

(***************************************************************************)
(* get_etf_holdings (lines 165-194) and get_fallback_data (lines 51-162).  *)
(* An ETF code is the sequence of its characters.  The live source is what *)
(* requests.get and pd.read_html do: the request raises, or answers with a *)
(* status code and, through read_html, with a list of tables, or with a    *)
(* ValueError when the page holds none (no_tables).                        *)
(***************************************************************************)
\* The keys and rows of db, lines 52-155: the code and the weight of each
\* holding, the weight in hundredths of a percent.
db_keys ==
    { <<"0", "0", "5", "0">>,
      <<"0", "0", "6", "2", "0", "8">>,
      <<"0", "0", "5", "6">>,
      <<"0", "0", "8", "7", "8">>,
      <<"0", "0", "9", "1", "9">>,
      <<"0", "0", "9", "2", "9">>,
      <<"0", "0", "9", "4", "0">>,
      <<"0", "0", "7", "1", "3">>,
      <<"0", "0", "9", "3", "9">>,
      <<"0", "0", "8", "3", "0">>,
      <<"0", "0", "8", "9", "1">>,
      <<"0", "0", "5", "2">>,
      <<"0", "0", "8", "8", "1">>,
      <<"0", "0", "7", "3", "3">> }
db(key) ==
    IF key = <<"0", "0", "5", "0">> THEN
        << [code |-> "2330", weight |-> 5643],
           [code |-> "2317", weight |-> 488],
           [code |-> "2454", weight |-> 392],
           [code |-> "2308", weight |-> 221],
           [code |-> "2382", weight |-> 195],
           [code |-> "2881", weight |-> 162],
           [code |-> "2412", weight |-> 158],
           [code |-> "2882", weight |-> 155],
           [code |-> "2891", weight |-> 145],
           [code |-> "2303", weight |-> 135] >>
    ELSE IF key = <<"0", "0", "6", "2", "0", "8">> THEN
        << [code |-> "2330", weight |-> 5643],
           [code |-> "2317", weight |-> 488],
           [code |-> "2454", weight |-> 392],
           [code |-> "2308", weight |-> 221],
           [code |-> "2382", weight |-> 195],
           [code |-> "2881", weight |-> 162],
           [code |-> "2412", weight |-> 158],
           [code |-> "2882", weight |-> 155],
           [code |-> "2891", weight |-> 145],
           [code |-> "2303", weight |-> 135] >>
    ELSE IF key = <<"0", "0", "5", "6">> THEN
        << [code |-> "3034", weight |-> 325],
           [code |-> "2454", weight |-> 310],
           [code |-> "2385", weight |-> 305],
           [code |-> "5347", weight |-> 298],
           [code |-> "3231", weight |-> 285],
           [code |-> "2379", weight |-> 275],
           [code |-> "6669", weight |-> 265],
           [code |-> "2357", weight |-> 255],
           [code |-> "3037", weight |-> 245],
           [code |-> "2301", weight |-> 235] >>
    ELSE IF key = <<"0", "0", "8", "7", "8">> THEN
        << [code |-> "2357", weight |-> 415],
           [code |-> "2454", weight |-> 395],
           [code |-> "3702", weight |-> 385],
           [code |-> "2301", weight |-> 375],
           [code |-> "2382", weight |-> 365],
           [code |-> "2891", weight |-> 355],
           [code |-> "3231", weight |-> 345],
           [code |-> "2886", weight |-> 325],
           [code |-> "1101", weight |-> 315],
           [code |-> "2324", weight |-> 305] >>
    ELSE IF key = <<"0", "0", "9", "1", "9">> THEN
        << [code |-> "2603", weight |-> 1050],
           [code |-> "2454", weight |-> 980],
           [code |-> "3034", weight |-> 950],
           [code |-> "5483", weight |-> 920],
           [code |-> "6176", weight |-> 880],
           [code |-> "2404", weight |-> 850],
           [code |-> "3044", weight |-> 820],
           [code |-> "3711", weight |-> 800],
           [code |-> "2385", weight |-> 780],
           [code |-> "3293", weight |-> 750] >>
    ELSE IF key = <<"0", "0", "9", "2", "9">> THEN
        << [code |-> "2454", weight |-> 550],
           [code |-> "3034", weight |-> 420],
           [code |-> "2385", weight |-> 380],
           [code |-> "2379", weight |-> 350],
           [code |-> "6176", weight |-> 320],
           [code |-> "3702", weight |-> 310],
           [code |-> "3005", weight |-> 300],
           [code |-> "5483", weight |-> 290],
           [code |-> "6239", weight |-> 280],
           [code |-> "3044", weight |-> 270] >>
    ELSE IF key = <<"0", "0", "9", "4", "0">> THEN
        << [code |-> "2603", weight |-> 920],
           [code |-> "3711", weight |-> 450],
           [code |-> "2454", weight |-> 420],
           [code |-> "3034", weight |-> 400],
           [code |-> "5483", weight |-> 380],
           [code |-> "2404", weight |-> 350],
           [code |-> "2385", weight |-> 320],
           [code |-> "6176", weight |-> 280],
           [code |-> "2301", weight |-> 250],
           [code |-> "3005", weight |-> 240] >>
    ELSE IF key = <<"0", "0", "7", "1", "3">> THEN
        << [code |-> "1216", weight |-> 850],
           [code |-> "3045", weight |-> 720],
           [code |-> "5483", weight |-> 680],
           [code |-> "2317", weight |-> 650],
           [code |-> "2412", weight |-> 620],
           [code |-> "2357", weight |-> 580],
           [code |-> "4904", weight |-> 550],
           [code |-> "1101", weight |-> 520],
           [code |-> "3034", weight |-> 480],
           [code |-> "2382", weight |-> 450] >>
    ELSE IF key = <<"0", "0", "9", "3", "9">> THEN
        << [code |-> "2454", weight |-> 650],
           [code |-> "3231", weight |-> 620],
           [code |-> "3702", weight |-> 580],
           [code |-> "3034", weight |-> 550],
           [code |-> "3711", weight |-> 520],
           [code |-> "2379", weight |-> 490],
           [code |-> "3037", weight |-> 460],
           [code |-> "6669", weight |-> 430],
           [code |-> "3005", weight |-> 400],
           [code |-> "3596", weight |-> 370] >>
    ELSE IF key = <<"0", "0", "8", "3", "0">> THEN
        << [code |-> "NVDA", weight |-> 1250],
           [code |-> "AVGO", weight |-> 980],
           [code |-> "AMD", weight |-> 850],
           [code |-> "QCOM", weight |-> 620],
           [code |-> "INTC", weight |-> 580],
           [code |-> "MU", weight |-> 550],
           [code |-> "TXN", weight |-> 520],
           [code |-> "AMAT", weight |-> 480],
           [code |-> "LRCX", weight |-> 450],
           [code |-> "TSM", weight |-> 420] >>
    ELSE IF key = <<"0", "0", "8", "9", "1">> THEN
        << [code |-> "2330", weight |-> 2850],
           [code |-> "2454", weight |-> 1520],
           [code |-> "3711", weight |-> 850],
           [code |-> "3034", weight |-> 580],
           [code |-> "2379", weight |-> 520],
           [code |-> "3443", weight |-> 480],
           [code |-> "3661", weight |-> 450],
           [code |-> "3035", weight |-> 350],
           [code |-> "3529", weight |-> 320],
           [code |-> "6531", weight |-> 280] >>
    ELSE IF key = <<"0", "0", "5", "2">> THEN
        << [code |-> "2330", weight |-> 6250],
           [code |-> "2317", weight |-> 520],
           [code |-> "2454", weight |-> 450],
           [code |-> "2308", weight |-> 280],
           [code |-> "2382", weight |-> 250],
           [code |-> "3034", weight |-> 180],
           [code |-> "3711", weight |-> 160],
           [code |-> "2357", weight |-> 150],
           [code |-> "2303", weight |-> 140],
           [code |-> "6669", weight |-> 130] >>
    ELSE IF key = <<"0", "0", "8", "8", "1">> THEN
        << [code |-> "2330", weight |-> 3250],
           [code |-> "2317", weight |-> 1250],
           [code |-> "2454", weight |-> 1020],
           [code |-> "2308", weight |-> 580],
           [code |-> "2382", weight |-> 520],
           [code |-> "3231", weight |-> 350],
           [code |-> "2357", weight |-> 280],
           [code |-> "2301", weight |-> 250],
           [code |-> "3034", weight |-> 220],
           [code |-> "3037", weight |-> 200] >>
    ELSE IF key = <<"0", "0", "7", "3", "3">> THEN
        << [code |-> "3017", weight |-> 650],
           [code |-> "3324", weight |-> 580],
           [code |-> "3661", weight |-> 550],
           [code |-> "3529", weight |-> 520],
           [code |-> "8996", weight |-> 480],
           [code |-> "1513", weight |-> 450],
           [code |-> "1519", weight |-> 420],
           [code |-> "3035", weight |-> 380],
           [code |-> "6274", weight |-> 350],
           [code |-> "6213", weight |-> 320] >>
    ELSE <<>>

\* The codes of etf_map, lines 326-331: what the page's select boxes offer.
etf_map ==
    { <<"0", "0", "5", "0", ".", "T", "W">>,
      <<"0", "0", "6", "2", "0", "8", ".", "T", "W">>,
      <<"0", "0", "5", "6", ".", "T", "W">>,
      <<"0", "0", "8", "7", "8", ".", "T", "W">>,
      <<"0", "0", "9", "1", "9", ".", "T", "W">>,
      <<"0", "0", "9", "2", "9", ".", "T", "W">>,
      <<"0", "0", "9", "4", "0", ".", "T", "W">>,
      <<"0", "0", "9", "3", "9", ".", "T", "W">>,
      <<"0", "0", "7", "1", "3", ".", "T", "W">>,
      <<"0", "0", "8", "3", "0", ".", "T", "W">>,
      <<"0", "0", "8", "9", "1", ".", "T", "W">>,
      <<"0", "0", "5", "2", ".", "T", "W">>,
      <<"0", "0", "8", "8", "1", ".", "T", "W">>,
      <<"0", "0", "7", "3", "3", ".", "T", "W">> }

LIVE_DATA     == "LIVE_DATA"       \* line 185
BUILT_IN_DATA == "BUILT_IN_DATA"   \* line 192
NO_DATA       == "NO_DATA"         \* line 194

\* etf_code.replace(".TW", ""), lines 156 and 167: every occurrence goes.
RECURSIVE replace_tw(_)
replace_tw(code) ==
    IF Len(code) < 3 THEN code
    ELSE IF SubSeq(code, 1, 3) = <<".", "T", "W">> THEN replace_tw(SubSeq(code, 4, Len(code)))
    ELSE <<Head(code)>> \o replace_tw(Tail(code))

\* The table looked up under the code as given, ".TW" and all.
get_fallback_data_unstripped(code) ==
    IF code \in db_keys THEN db(code) ELSE <<>>

\* Lines 156-162.
get_fallback_data(code) ==
    LET key == replace_tw(code)
    IN  IF key \in db_keys THEN db(key) ELSE <<>>

\* Lines 183-184: the weight column as text, "%" removed, then to_numeric
\* with errors='coerce': text that is no number becomes NaN.
to_numeric(text) == IF text.numeric THEN text.digits ELSE "NaN"

\* Lines 180-185: the first table with the name and weight columns is
\* returned; selecting the code column from it raises KeyError if absent.
RECURSIVE first_table(_, _)
first_table(dfs, k) ==
    IF k > Len(dfs) THEN 0
    ELSE IF {"name", "weight"} \subseteq dfs[k].columns THEN k
    ELSE first_table(dfs, k + 1)

\* Lines 176-187: the try block.  found is FALSE when control falls through
\* to the built-in data.
live_holdings(resp) ==
    IF resp.kind = "raises" \/ resp.status_code # 200 \/ resp.no_tables
    THEN [found |-> FALSE, df |-> <<>>]
    ELSE LET k == first_table(resp.read_html, 1)
         IN  IF k = 0 THEN [found |-> FALSE, df |-> <<>>]
             ELSE IF "code" \notin resp.read_html[k].columns THEN [found |-> FALSE, df |-> <<>>]
             ELSE [found |-> TRUE,
                   df |-> [r \in 1..Len(resp.read_html[k].rows) |->
                              [code |-> resp.read_html[k].rows[r].code,
                               weight |-> to_numeric(resp.read_html[k].rows[r].weight)]]]

\* The codes and the answers of the live source tried.
MaxTables == 2
TableRowCounts == {0, 1}
OtherCodes ==
    { <<"9", "9", "9", "9", ".", "T", "W">>, <<"0", "0", "5", "0">>,
      <<"0", "0", "5", "0", ".", "T", "W", ".", "T", "W">> }
WeightTexts ==
    { [digits |-> 1250, percent |-> TRUE, numeric |-> TRUE],
      [digits |-> 0, percent |-> FALSE, numeric |-> FALSE] }
ColumnSets ==
    { {"code", "name", "weight"}, {"name", "weight"}, {"code", "name"}, {} }
LiveTables ==
    { [columns |-> c, rows |-> rows] :
        c \in ColumnSets,
        rows \in UNION { [1..n -> [code : {"2330"}, weight : WeightTexts]] : n \in TableRowCounts } }
Responses ==
    { [kind |-> "raises", status_code |-> 0, no_tables |-> TRUE, read_html |-> <<>>] }
    \cup { [kind |-> "response", status_code |-> c, no_tables |-> TRUE, read_html |-> <<>>] :
             c \in {200, 404, 500} }
    \cup { [kind |-> "response", status_code |-> 200, no_tables |-> FALSE, read_html |-> dfs] :
             dfs \in UNION { [1..n -> LiveTables] : n \in 1..MaxTables } }

InitHoldings ==
    /\ page = "get_etf_holdings"
    /\ pc = "call"
    /\ etf_code \in etf_map \cup OtherCodes
    /\ response \in Responses
    /\ holdings = None
    /\ VpaIdle /\ EtfIdle /\ TaIdle /\ McIdle /\ FftIdle /\ DataIdle

\* Lines 176-187: the live source answers with a usable table.
GetEtfHoldingsLive ==
    /\ page = "get_etf_holdings" /\ pc = "call"
    /\ live_holdings(response).found
    /\ holdings' = [df |-> live_holdings(response).df, source_msg |-> LIVE_DATA]
    /\ pc' = "returned"
    /\ UNCHANGED <<page, vpaVars, etfVars, taVars, mcVars, fftVars, dataVars, etf_code, response>>

\* Lines 176-187 falling through to line 189.
GetEtfHoldingsLiveFails ==
    /\ page = "get_etf_holdings" /\ pc = "call"
    /\ ~live_holdings(response).found
    /\ pc' = "fallback"
    /\ UNCHANGED <<page, vpaVars, etfVars, taVars, mcVars, fftVars, dataVars, holdVars>>

\* Lines 190-194.
GetEtfHoldingsFallback ==
    /\ page = "get_etf_holdings" /\ pc = "fallback"
    /\ LET df_fallback == get_fallback_data(etf_code)
       IN  holdings' = IF df_fallback # <<>>
                       THEN [df |-> df_fallback, source_msg |-> BUILT_IN_DATA]
                       ELSE [df |-> <<>>, source_msg |-> NO_DATA]
    /\ pc' = "returned"
    /\ UNCHANGED <<page, vpaVars, etfVars, taVars, mcVars, fftVars, dataVars, etf_code, response>>

NextHoldings == GetEtfHoldingsLive \/ GetEtfHoldingsLiveFails \/ GetEtfHoldingsFallback

SpecHoldings == InitHoldings /\ [][NextHoldings]_vars

(***************************************************************************)
(* C14.  get_etf_holdings tries the live source first; when that is        *)
(* unavailable (the request fails, the status is not 200, or no table has  *)
(* the expected columns) it returns the built-in table, labelled as        *)
(* built-in data; every code the ETF page offers has a built-in table, so  *)
(* for those codes the result is then never the empty no-data outcome.     *)
(***************************************************************************)
LiveUnavailable ==
    \/ response.kind = "raises"
    \/ response.status_code # 200
    \/ response.no_tables
    \/ \A k \in 1..Len(response.read_html) :
          ~({"name", "weight"} \subseteq response.read_html[k].columns)

\* Every table with the name and weight columns has the code column too.
CompleteTables ==
    \A k \in 1..Len(response.read_html) :
        {"name", "weight"} \subseteq response.read_html[k].columns
            => "code" \in response.read_html[k].columns

BuiltInKey ==
    IF Len(etf_code) > 3 /\ SubSeq(etf_code, Len(etf_code) - 2, Len(etf_code)) = <<".", "T", "W">>
    THEN SubSeq(etf_code, 1, Len(etf_code) - 3)
    ELSE etf_code

C14_FallsBackToBuiltIn ==
    (page = "get_etf_holdings" /\ pc = "returned") =>
        /\ (LiveUnavailable /\ etf_code \in etf_map) =>
               /\ holdings.source_msg = BUILT_IN_DATA
               /\ holdings.df = db(BuiltInKey)
               /\ Len(holdings.df) = 10
        /\ (~LiveUnavailable /\ CompleteTables) => holdings.source_msg = LIVE_DATA
        /\ LiveUnavailable => holdings.source_msg # LIVE_DATA

C14_Witness ==
    /\ page = "get_etf_holdings" /\ pc = "returned"
    /\ response.kind = "response" /\ response.status_code = 404
    /\ etf_code = <<"0", "0", "5", "0", ".", "T", "W">>
    /\ holdings.source_msg = BUILT_IN_DATA
    /\ holdings.df[1] = [code |-> "2330", weight |-> 5643]

(***************************************************************************)
(* C12.  On the three pages that consume a price series, a series that is  *)
(* empty or too short (fewer than long_window bars for the indicators,     *)
(* fewer than 2 bars for the simulation and the spectrum) ends in the      *)
(* no-data outcome: the computation is never run on it.                    *)
(***************************************************************************)
C12_ShortSeriesIsNoData ==
    /\ (page = "page_analysis" /\ Len(df) < ma_long) => pc \in {"button", "error"}
    /\ (page = "page_monte_carlo" /\ Len(ln_close) < 2) =>
           /\ pc \in {"button", "error"}
           /\ price_paths = <<>>
    /\ (page = "page_fft" /\ prices_len < 2) => pc \in {"button", "no_data"}

(***************************************************************************)
(* C13.  The indicators are never computed with short_window >=            *)
(* long_window: such a choice of the two sliders is rejected, and yields   *)
(* no indicator frame and no crossover event.                              *)
(***************************************************************************)
C13_ShortWindowBelowLong ==
    (page = "page_analysis" /\ ma_short >= ma_long) =>
        /\ pc \in {"button", "error"}
        /\ frame = None
        /\ buys = {} /\ sells = {}

(***************************************************************************)
(* C15.  In the ETF scan a holding whose analysis fails, or whose history  *)
(* has fewer than 5 bars, is reported with pct_change 0, volume_ratio 0    *)
(* and the error or insufficient-data signal, adds to neither force, and   *)
(* does not stop the scan; after every prefix of the scan each processed   *)
(* holding has been added to at most one force, so bull_force + bear_force *)
(* is at most the total weight of the holdings processed so far.           *)
(***************************************************************************)
RECURSIVE WeightOf(_)
WeightOf(rows) == IF rows = <<>> THEN 0 ELSE Head(rows).weight + WeightOf(Tail(rows))

NoUsableHistory(h) == h.raises \/ h.rows < MinHistRows

C15_FailedHoldingsAddNothing ==
    (page = "page_etf_analysis" /\ pc \in {"scan", "done"}) =>
        /\ Len(realtime_data) = i /\ Len(histories) = i
        /\ \A k \in 1..i :
              NoUsableHistory(histories[k]) =>
                  /\ realtime_data[k].pct_chg = 0
                  /\ realtime_data[k].vol_ratio = 0
                  /\ realtime_data[k].signal =
                         (IF histories[k].raises THEN ERROR ELSE INSUFFICIENT_DATA)
        /\ bull_force = WeightWhere(realtime_data, 1)
        /\ bear_force = WeightWhere(realtime_data, -1)
        /\ bull_force + bear_force <= WeightOf(realtime_data)
        /\ \A k \in 1..i : realtime_data[k].weight = top_10[k]
        /\ pc = "done" => i = Len(top_10)

C15_Witness ==
    /\ page = "page_etf_analysis" /\ pc = "done"
    /\ i = 2
    /\ histories[1].raises
    /\ realtime_data[1].signal = ERROR
    /\ realtime_data[2].pct_chg > 0
    /\ bull_force = realtime_data[2].weight /\ bull_force > 0
    /\ bear_force = 0

====
